---- MODULE Spec2Model ----
(***************************************************************************)
(* Model of src/src/api/static/js/post-process-2.js: the host page's       *)
(* controller (handleSubmit, handleResults, executeInSandbox,              *)
(* handleMessage), the document it generates for the sandbox iframe, the   *)
(* host's task queue of message events and the deadline timer; and of the  *)
(* scoring of a session's records (the backend behind /collect and         *)
(* /results, whose rules are documented in src/docs/TESTING.md).           *)
(***************************************************************************)
EXTENDS Integers, Sequences, FiniteSets, TLC

\* ------------------------------------------------------------------ bounds
\* Number of executeInSandbox invocations explored.
MaxCalls == 2
\* Number of undelivered message events queued on the host at which nothing
\* posts a further one: a step posts, all the messages it posts, only while
\* the queue holds fewer.
MaxInflight == 1
\* Granularity of the clock, in ms.
TickMs == 2500

\* Number of records of a session explored.
MaxRecords == 4

\* The deadline of setTimeout (line 75).
TimeoutMs == 5000

Calls == 1..MaxCalls

\* --------------------------------------------------------------- JS values
Undef == [t |-> "undefined", v |-> ""]
Null == [t |-> "null", v |-> ""]
Str(s) == [t |-> "string", v |-> s]
Num(s) == [t |-> "number", v |-> s]
Obj == [t |-> "object", v |-> "{}"]
\* new Error(m): an object whose message property is the string m
Err(m) == [t |-> "error", v |-> m]

\* ToBoolean, as applied by `if (event.data.error)` and `!sessionId`
Truthy(x) ==
    CASE x.t = "undefined" -> FALSE
      [] x.t = "null" -> FALSE
      [] x.t = "string" -> x.v # ""
      [] x.t = "number" -> x.v # "0"
      [] OTHER -> TRUE

\* typeof x === 'string'
IsString(x) == x.t = "string"

\* The messages the generated document itself throws
NotFoundMsg == "runFingerprinting() function not found in fingerprinter.js"
MustReturnStringMsg == "runFingerprinting() must return a string"
ThenNotFunctionMsg == "runFingerprinting(...).then is not a function"
TimedOutMsg == "Script execution timed out (5s limit)"
FingerprintResult == "fingerprint-result"

\* event.data: null, or an object with the properties type, hash, error
\* (a property that is absent reads as undefined)
NullData == [truthy |-> FALSE, type |-> Undef, hash |-> Undef, error |-> Undef]
Data(ty, h, e) == [truthy |-> TRUE, type |-> Str(ty), hash |-> h, error |-> e]

\* What a window can post to the host: the shapes the listener tells apart.
DataShapes ==
    { NullData,
      Data("other", Str("h9"), Undef),
      Data(FingerprintResult, Str("h9"), Str("evil")),
      Data(FingerprintResult, Str("h9"), Undef),
      Data(FingerprintResult, Undef, Undef),
      Data(FingerprintResult, Num("42"), Undef) }
\* What another window posts: it imitates a result.
ForgedShapes == { Data(FingerprintResult, Str("forged"), Undef) }

\* ------------------------------------------------------- untrusted scripts
\* The text of fingerprinter.js, abstracted to what it does when the module
\* script of the generated document runs it:
\*   kind "bodyThrows":  a top-level statement throws
\*   kind "missing":     runFingerprinting is not defined
\*   kind "notFunction": runFingerprinting is defined, typeof is not 'function'
\*   kind "runThrows":   runFingerprinting() throws
\*   kind "returns":     runFingerprinting() returns the non-promise value x
\*   kind "resolves":    runFingerprinting() returns a promise resolving to x
\*   kind "rejects":     runFingerprinting() returns a promise that rejects
\*   kind "never":       runFingerprinting() returns a promise never settled
\*   kind "evaluates":   runFingerprinting() evaluates code given as a string
\*                       and returns a promise resolving to the string it made
\*   kind "thenable":    runFingerprinting() returns an object that is no
\*                       promise, whose then method calls its callback with x
\*                       at once and returns undefined
\*   kind "thenableTwice": as "thenable", but then calls its callback with x
\*                       and with "h2", and returns an object with a catch
\*                       method
\* The value a script throws or rejects with is drawn from Thrown when it does,
\* and the primitive a script evaluates a string with from Primitives. The body
\* of any script may, before all this, post to the host and await (a module
\* script allows await at its top level): see LoadSandbox.
Script(k, x) == [kind |-> k, x |-> x]
Thrown == { Err("boom"), Err(""), Str("boom"), Obj, Null }
Scripts ==
    { Script(k, Undef) : k \in {"bodyThrows", "missing", "notFunction",
                                "runThrows", "rejects", "never",
                                "evaluates"} } \cup
    { Script(k, Str("h1")) : k \in {"returns", "thenable", "thenableTwice"} } \cup
    { Script("resolves", x) : x \in { Str("h1"), Num("42") } }

\* The primitives that evaluate a string as code: eval(s), new Function(s),
\* setTimeout(s) and setInterval(s). The head script (lines 103-106) replaces
\* window.eval by a function that throws, and no other.
Primitives == { "eval", "Function", "setTimeout" }
EvalNotAllowedMsg == "eval() is not allowed"
Intercepted(p) == p = "eval"
\* What evaluating a string with primitive p does inside runFingerprinting:
\* the interceptor throws its Error, any other primitive runs the code, which
\* makes a hash of 40 characters.
EvaluatedHash == "e3b0c44298fc1c149afbf4c8996fb92427ae41e4"
Evaluate(p) ==
    IF Intercepted(p)
    THEN [throws |-> TRUE, value |-> Err(EvalNotAllowedMsg)]
    ELSE [throws |-> FALSE, value |-> Str(EvaluatedHash)]

\* error.message of a caught value: the message of an Error, undefined for a
\* value that has no such property; reading it off null or undefined throws.
HasProperties(x) == x.t \notin {"null", "undefined"}
ErrorMessage(x) == IF x.t = "error" THEN Str(x.v) ELSE Undef

\* The catch handlers (lines 136-140 and 142-147):
\*   window.parent.postMessage({type: 'fingerprint-result', error: error.message}, '*')
\* The sequence of messages posted: none when window.parent is null or when
\* error.message itself throws (the TypeError is not caught by anything).
CatchPosts(x, severed) ==
    IF severed \/ ~HasProperties(x)
    THEN << >>
    ELSE << Data(FingerprintResult, Undef, ErrorMessage(x)) >>

\* The values that may be thrown inside the try block of the module script
\* (lines 118-141) when it runs script s synchronously; none when the promise
\* chain of line 126 is set up instead.
TryThrows(s) ==
    CASE s.kind \in {"bodyThrows", "runThrows"} -> Thrown
      [] s.kind \in {"missing", "notFunction"} -> { Err(NotFoundMsg) }
      [] s.kind = "returns" -> { Err(ThenNotFunctionMsg) }
      [] OTHER -> {}

\* Whether the module script reaches the call runFingerprinting() of line 126.
Invokes(s) ==
    s.kind \in {"runThrows", "returns", "resolves", "rejects", "never",
                "evaluates", "thenable", "thenableTwice"}

\* The then-callback of lines 126-135 called with result: the messages it
\* posts and the value it throws, if it throws.
PostOfNullMsg == "Cannot read properties of null (reading 'postMessage')"
ThenCallback(result, severed) ==
    IF ~IsString(result)
    THEN [posts |-> << >>, throws |-> TRUE, value |-> Err(MustReturnStringMsg)]
    ELSE IF severed
    THEN [posts |-> << >>, throws |-> TRUE, value |-> Err(PostOfNullMsg)]
    ELSE [posts |-> << Data(FingerprintResult, result, Undef) >>,
          throws |-> FALSE, value |-> Undef]

\* The then-callback run by a promise that resolved to result: the messages
\* posted, those of the catch of lines 136-141 included.
ThenPosts(result, severed) ==
    LET c == ThenCallback(result, severed)
    IN IF c.throws THEN CatchPosts(c.value, severed) ELSE c.posts

\* Line 126 on a thenable: its then method calls the callback at once, what
\* the callback throws leaves the try block, and `.catch` is read off what
\* then returned. The messages posted, those of the catch block included.
CatchOfUndefinedMsg == "Cannot read properties of undefined (reading 'catch')"
ThenablePosts(s, severed) ==
    LET c1 == ThenCallback(s.x, severed)
        c2 == ThenCallback(Str("h2"), severed)
    IN IF c1.throws THEN CatchPosts(c1.value, severed)
       ELSE IF s.kind = "thenable"
       THEN c1.posts \o CatchPosts(Err(CatchOfUndefinedMsg), severed)
       ELSE IF c2.throws THEN c1.posts \o CatchPosts(c2.value, severed)
       ELSE c1.posts \o c2.posts

\* The module script from the typeof check to the end of its synchronous part
\* (lines 122-147) on script s: the messages the generated code posts, and
\* whether it is done or waits for the promise runFingerprinting returned.
RunModule(s, severed) ==
    CASE s.kind = "evaluates" ->
           { IF Evaluate(p).throws
             THEN [out |-> CatchPosts(Evaluate(p).value, severed), done |-> TRUE]
             ELSE [out |-> << >>, done |-> FALSE] : p \in Primitives }
      [] s.kind \in {"thenable", "thenableTwice"} ->
           { [out |-> ThenablePosts(s, severed), done |-> TRUE] }
      [] s.kind \in {"resolves", "rejects", "never"} ->
           { [out |-> << >>, done |-> FALSE] }
      [] OTHER ->
           { [out |-> CatchPosts(x, severed), done |-> TRUE] : x \in TryThrows(s) }

\* ------------------------------------------------------------------- state
VARIABLES
    replaceable,    \* the engine: whether `window.parent = null` replaces parent
    isRunning,      \* line 19
    pc,             \* where handleSubmit is suspended: idle, fetch, exec, collect
    inputs,         \* the {sessionId, deviceLabel} handleSubmit validated
    status,         \* statusDiv: textContent and whether the class is 'error'
    statusDisplay,  \* statusDiv.style.display
    btnDisabled,    \* submitBtn.disabled
    resultsBtnDisabled, \* resultsBtn.disabled: a handleResults awaits its answer
    nCalls,         \* executeInSandbox invocations so far; the last is the current
    promise,        \* per invocation: the promise executeInSandbox returned
    timers,         \* per invocation: its timeout, armed or not, and the ms left
    listeners,      \* invocations whose handleMessage is registered on window
    blobUrls,       \* object URLs created and not revoked
    navigating,     \* the blob document sandbox.src is loading, not yet committed
    doc,            \* the document active in the sandbox iframe
    inflight,       \* message events queued on the host window, oldest first
    posted,         \* bodies of the POST /collect requests of the last handleSubmit
    elapsedAtFire,  \* history: per invocation, ms since arming when its timer ran
    ignored,        \* history: invocations, not yet resumed by handleSubmit, whose
                    \* handleMessage returned at line 80 while they were pending
    records,        \* the backend's record sequence of the session
    response        \* the answer to the last results query, until a record is added

vars == << replaceable, isRunning, pc, inputs, status, statusDisplay, btnDisabled,
           resultsBtnDisabled, nCalls,
           promise, timers, listeners, blobUrls, navigating, doc, inflight,
           posted, elapsedAtFire, ignored, records, response >>

scoreVars == << records, response >>
hostVars == << isRunning, pc, inputs, status, statusDisplay, btnDisabled, posted >>
callVars == << nCalls, promise, timers, listeners, blobUrls, elapsedAtFire,
              ignored >>

\* A promise: kind none (not created), pending, ok (resolved with value),
\* error or timeout (rejected with an Error whose message is value).
\* History: from, the document whose message settled it (0: none); via, who
\* posted that message (the generated document's wrapper code, or the script
\* itself) or "timer"; calls, how many times resolve or reject was called.
NoPromise == [kind |-> "none", value |-> Undef, from |-> 0, via |-> "", calls |-> 0]
Pending == [NoPromise EXCEPT !.kind = "pending"]
\* The promise of a completed invocation that nothing references any more: it
\* can neither change nor be observed, and its history is dropped.
Collected == [NoPromise EXCEPT !.kind = "collected"]
Settled(p) == p.kind \in {"ok", "error", "timeout"}

\* resolve(v) / reject(e) of a promise: the first call settles it, later calls
\* have no effect.
SettleAlways(p, outcome) == [outcome EXCEPT !.calls = p.calls + 1]
Settle(p, outcome) ==
    IF p.kind = "pending"
    THEN [outcome EXCEPT !.calls = 1]
    ELSE [p EXCEPT !.calls = @ + 1]

\* A timeout: armed until it runs or clearTimeout is called on it.
Disarmed == [armed |-> FALSE, left |-> 0]
Armed(ms) == [armed |-> TRUE, left |-> ms]
\* The timer task may run once the delay has elapsed.
DueEarly(t) == t.armed
Due(t) == t.armed /\ t.left <= 0

NoDoc == [id |-> 0, script |-> Script("never", Undef), severed |-> FALSE,
          pc |-> "none", invoked |-> FALSE, wrapperPosts |-> 0]
\* A document whose generated code has finished and whose invocation
\* handleSubmit no longer awaits: the script in it can still post to the host,
\* nothing else of it can act or be observed, and its history is dropped.
Spent(d) ==
    IF d.pc = "done"
    THEN [NoDoc EXCEPT !.id = d.id, !.severed = d.severed, !.pc = "done"]
    ELSE d
NoNav == [id |-> 0, script |-> Script("never", Undef)]
NoInputs == [sessionId |-> << >>, deviceLabel |-> << >>]
NoStatus == [text |-> "", isError |-> FALSE]
NoResponse == [queried |-> FALSE]

Init ==
    /\ replaceable \in BOOLEAN
    /\ isRunning = FALSE
    /\ pc = "idle"
    /\ inputs = NoInputs
    /\ status = NoStatus
    /\ statusDisplay = ""
    /\ btnDisabled = FALSE
    /\ resultsBtnDisabled = FALSE
    /\ nCalls = 0
    /\ promise = [i \in Calls |-> NoPromise]
    /\ timers = [i \in Calls |-> Disarmed]
    /\ listeners = {}
    /\ blobUrls = {}
    /\ navigating = NoNav
    /\ doc = NoDoc
    /\ inflight = << >>
    /\ posted = << >>
    /\ elapsedAtFire = [i \in Calls |-> -1]
    /\ ignored = {}
    /\ records = << >>
    /\ response = NoResponse

\* -------------------------------------------------------------- host page
\* String.prototype.trim on a string given as a sequence of characters: it
\* strips the WhiteSpace and LineTerminator code points of ECMAScript. Those a
\* TLA+ string cannot hold are written by their code point.
WhiteSpace ==
    { "\t", "U+000B", "\f", " ", "U+00A0", "U+FEFF", "U+1680", "U+2000",
      "U+2001", "U+2002", "U+2003", "U+2004", "U+2005", "U+2006", "U+2007",
      "U+2008", "U+2009", "U+200A", "U+202F", "U+205F", "U+3000" }
LineTerminator == { "\n", "\r", "U+2028", "U+2029" }
IsSpace(c) == c \in WhiteSpace \cup LineTerminator
RECURSIVE TrimStart(_)
TrimStart(s) ==
    IF s # << >> /\ IsSpace(Head(s)) THEN TrimStart(Tail(s)) ELSE s
RECURSIVE TrimEnd(_)
TrimEnd(s) ==
    IF s # << >> /\ IsSpace(s[Len(s)]) THEN TrimEnd(SubSeq(s, 1, Len(s) - 1)) ELSE s
Trim(s) == TrimEnd(TrimStart(s))

\* What the user may have typed in #session-id and #device-label
RawInputs == { << >>, << " ", "\r" >>, << "\r", "s", "U+00A0" >> }

\* validateInputs (lines 40-54): null, reported through showStatus, or the
\* trimmed pair
Invalid(text) == [ok |-> FALSE, text |-> text, value |-> NoInputs]
validateSessionOnly(sessionRaw, labelRaw) ==
    IF Trim(sessionRaw) = << >> THEN Invalid("Please enter a Session ID")
    ELSE [ok |-> TRUE, text |-> "",
          value |-> [sessionId |-> Trim(sessionRaw), deviceLabel |-> Trim(labelRaw)]]
validateInputs(sessionRaw, labelRaw) ==
    IF Trim(sessionRaw) = << >> THEN Invalid("Please enter a Session ID")
    ELSE IF Trim(labelRaw) = << >> THEN Invalid("Please enter a Device Label")
    ELSE [ok |-> TRUE, text |-> "",
          value |-> [sessionId |-> Trim(sessionRaw), deviceLabel |-> Trim(labelRaw)]]

\* showStatus (lines 24-27)
showStatus(message, isError) == [text |-> message, isError |-> isError]

\* The marks that open the texts of lines 263, 266, 293 and 295 are the
\* characters U+2713 and U+2717, written here by their code points.
CheckMark == "U+2713"
CrossMark == "U+2717"
\* The catch blocks (lines 265-266 and 294-295) on an Error with message m
ErrorStatus(m) == showStatus(CrossMark \o " Error: " \o m, TRUE)

\* The outcome of a fetch. The request itself fails and fetch rejects with
\* the engine's TypeError; or the server answers with a status outside 200-299
\* and a body that is no JSON, JSON without a message, or JSON with a message;
\* or it answers ok, with a body that is text and no JSON, or JSON whose data
\* member (line 194) is "results": an object with score and breakdown, as
\* displayResults expects; "scoreOnly": an object with a score and nothing
\* else; "undefined": absent (the body src/docs/TESTING.md gives for /results,
\* lines 104-114, has score and breakdown at its top level).
FailedToFetchMsg == "Failed to fetch"
NetworkError ==
    [settled |-> FALSE, ok |-> FALSE, status |-> 0, json |-> FALSE,
     message |-> Undef, body |-> "", data |-> "undefined"]
HttpError(st, js, m) ==
    [settled |-> TRUE, ok |-> FALSE, status |-> st, json |-> js,
     message |-> m, body |-> "", data |-> "undefined"]
OkJson(d) ==
    [settled |-> TRUE, ok |-> TRUE, status |-> 200, json |-> TRUE,
     message |-> Undef, body |-> "", data |-> d]
OkText(b) ==
    [settled |-> TRUE, ok |-> TRUE, status |-> 200, json |-> FALSE,
     message |-> Undef, body |-> b, data |-> "undefined"]
FailedResponses ==
    { NetworkError, HttpError(500, FALSE, Undef), HttpError(500, TRUE, Undef),
      HttpError(400, TRUE, Str("nope")) }
OkResponses ==
    { OkJson(d) : d \in {"results", "scoreOnly", "undefined"} } \cup
    { OkText(b) : b \in {"OK", "", "<html>"} }
Responses == FailedResponses \cup OkResponses
\* The message of the SyntaxError response.json() rejects with for a body
\* that is no JSON (lines 179 and 193)
JSONParseErrorMsg(b) ==
    IF b = "" THEN "Unexpected end of JSON input"
    ELSE "Unexpected token '" \o SubSeq(b, 1, 1) \o "', \"" \o b
             \o "\" is not valid JSON"
\* What an async function of the controller does when its fetch has settled:
\* it returns, or throws an Error with a message.
Returns == [throws |-> FALSE, message |-> ""]
Throws(m) == [throws |-> TRUE, message |-> m]
\* The digits of an HTTP status, as the template literal writes them
StatusText(st) == ToString(st)
\* The message of the Error submitFingerprint and fetchResults throw for a
\* failed response (lines 174-177 and 188-191)
ResponseErrorMessage(r) ==
    IF ~r.json THEN "Unknown error"
    ELSE IF Truthy(r.message) THEN r.message.v
    ELSE "HTTP " \o StatusText(r.status)
\* submitFingerprint on the response to its POST (lines 162-179)
submitFingerprint(r) ==
    IF ~r.settled THEN Throws(FailedToFetchMsg)
    ELSE IF ~r.ok THEN Throws(ResponseErrorMessage(r))
    ELSE IF ~r.json THEN Throws(JSONParseErrorMsg(r.body))
    ELSE Returns
\* fetchResults on the response to its GET (lines 186-194), and displayResults
\* on data.data (lines 200-225): reading results.score throws when data.data
\* is undefined (line 202), and reading results.breakdown.correct throws when
\* it has no breakdown (line 205).
ScoreTypeErrorMsg == "Cannot read properties of undefined (reading 'score')"
CorrectTypeErrorMsg == "Cannot read properties of undefined (reading 'correct')"
fetchResults(r) ==
    IF ~r.settled THEN Throws(FailedToFetchMsg)
    ELSE IF ~r.ok THEN Throws(ResponseErrorMessage(r))
    ELSE IF ~r.json THEN Throws(JSONParseErrorMsg(r.body))
    ELSE Returns
displayResults(r) ==
    CASE r.data = "undefined" -> Throws(ScoreTypeErrorMsg)
      [] r.data = "scoreOnly" -> Throws(CorrectTypeErrorMsg)
      [] OTHER -> Returns
\* The message of the Error fetchFingerprinterJs throws (lines 60-63)
FailedToLoadMsg == "Failed to load fingerprinter.js"
FetchErrorMessage(r) == IF ~r.settled THEN FailedToFetchMsg ELSE FailedToLoadMsg

\* fingerprintHash.substring(0, 32) (line 263), and the message of the
\* TypeError the call throws on a hash that is no string
Substring32(h) == IF Len(h) <= 32 THEN h ELSE SubSeq(h, 1, 32)
SubstringTypeErrorMsg(x) ==
    IF x.t \in {"undefined", "null"}
    THEN "Cannot read properties of " \o x.t \o " (reading 'substring')"
    ELSE "fingerprintHash.substring is not a function"

\* The catch and finally blocks of handleSubmit (lines 265-271)
Finally ==
    /\ isRunning' = FALSE
    /\ btnDisabled' = FALSE
    /\ pc' = "idle"

\* `if (isRunning) return` (line 240): whether handleSubmit returns at once.
NeverBusy == FALSE
Busy == isRunning

\* handleSubmit up to its first await (lines 239-253): a click on Submit or
\* Enter in one of the two fields. The values of the two fields are whatever
\* the user has typed when validateInputs reads them.
handleSubmit ==
    /\ isRunning \/ nCalls < MaxCalls
    /\ IF Busy
       THEN UNCHANGED vars
       ELSE \E sessionRaw, labelRaw \in RawInputs :
            LET v == validateInputs(sessionRaw, labelRaw) IN
            IF ~v.ok
            THEN /\ status' = showStatus(v.text, TRUE)
                 /\ UNCHANGED << scoreVars, replaceable, resultsBtnDisabled, isRunning, pc, inputs, statusDisplay,
                                 btnDisabled, posted, callVars, navigating, doc,
                                 inflight >>
            ELSE /\ isRunning' = TRUE
                 /\ btnDisabled' = TRUE
                 /\ statusDisplay' = "none"
                 /\ status' = showStatus("Loading fingerprinter.js...", FALSE)
                 /\ inputs' = v.value
                 /\ pc' = "fetch"
                 /\ posted' = << >>
                 /\ UNCHANGED << scoreVars, replaceable, resultsBtnDisabled, callVars, navigating, doc, inflight >>

\* executeInSandbox (lines 71-156), the promise executor: arm the timeout,
\* register handleMessage, create the blob URL and point the iframe at it.
executeInSandbox(fingerprintJs) ==
    LET i == nCalls + 1 IN
    /\ nCalls' = i
    /\ promise' = [j \in Calls |->
                      IF j = i THEN Pending
                      ELSE IF j < i /\ j \notin listeners THEN Collected
                      ELSE promise[j]]
    /\ timers' = [timers EXCEPT ![i] = Armed(TimeoutMs)]
    /\ listeners' = listeners \cup {i}
    /\ blobUrls' = blobUrls \cup {i}
    /\ navigating' = [id |-> i, script |-> fingerprintJs]
    /\ elapsedAtFire' = [j \in Calls |->
                            IF j \in listeners THEN elapsedAtFire[j] ELSE -1]
    /\ doc' = Spent(doc)
    /\ UNCHANGED ignored

\* fetchFingerprinterJs settles (lines 59-65, 253-257): on failure the catch
\* and finally blocks run, otherwise executeInSandbox is called with the text.
FetchDone ==
    /\ pc = "fetch"
    /\ \/ /\ \E r \in FailedResponses : status' = ErrorStatus(FetchErrorMessage(r))
          /\ Finally
          /\ UNCHANGED << inputs, statusDisplay, posted, callVars, navigating, doc >>
       \/ \E s \in Scripts :
          /\ status' = showStatus("Executing script in sandbox...", FALSE)
          /\ executeInSandbox(s)
          /\ pc' = "exec"
          /\ UNCHANGED << isRunning, inputs, statusDisplay, btnDisabled, posted >>
    /\ UNCHANGED << scoreVars, replaceable, resultsBtnDisabled, inflight >>

\* A message event: source is the window that posted it, as event.source
\* identifies it ("sandbox" is sandbox.contentWindow, the iframe's window
\* whatever document it holds); doc is history, the document that posted it.
\* wrapper is history too: whether the generated document's own code posted it.
Message(source, d, data, w) ==
    [source |-> source, doc |-> d, data |-> data, wrapper |-> w]

\* event.source === sandbox.contentWindow (line 80)
AnySource(m) == TRUE
FromSandbox(m) == m.source = "sandbox"

\* event.data && event.data.type === 'fingerprint-result' (line 85)
IsResult(data) == data.truthy /\ data.type = Str(FingerprintResult)

\* lines 86-90: reject(new Error(event.data.error)) or resolve(event.data.hash)
Outcome(m) ==
    [kind |-> IF Truthy(m.data.error) THEN "error" ELSE "ok",
     value |-> IF Truthy(m.data.error) THEN m.data.error ELSE m.data.hash,
     from |-> m.doc,
     via |-> IF m.wrapper THEN "wrapper" ELSE "script",
     calls |-> 0]

\* handleMessage of invocation i on event m (lines 78-92): the promise, the
\* timeout and the registration of the listener after it returns.
handleMessage(i, m) ==
    IF ~FromSandbox(m)
    THEN [promise |-> promise[i], timer |-> timers[i], listening |-> TRUE]
    ELSE [promise |-> IF IsResult(m.data)
                      THEN Settle(promise[i], Outcome(m))
                      ELSE promise[i],
          timer |-> Disarmed,
          listening |-> FALSE]

\* The host dispatches the oldest queued message event: every registered
\* handleMessage runs on it.
Deliver ==
    /\ inflight # << >>
    /\ LET m == Head(inflight) IN
       /\ promise' = [i \in Calls |->
                        IF i \in listeners THEN handleMessage(i, m).promise
                        ELSE promise[i]]
       /\ timers' = [i \in Calls |->
                        IF i \in listeners THEN handleMessage(i, m).timer
                        ELSE timers[i]]
       /\ listeners' = { i \in listeners : handleMessage(i, m).listening }
       /\ ignored' = ignored \cup { i \in listeners :
                                        /\ handleMessage(i, m).listening
                                        /\ promise[i].kind = "pending" }
    /\ inflight' = Tail(inflight)
    /\ UNCHANGED << scoreVars, replaceable, resultsBtnDisabled, hostVars, nCalls, blobUrls, elapsedAtFire, navigating, doc >>

\* The timeout callback of invocation i runs (lines 73-75).
TimerFires(i) ==
    /\ Due(timers[i])
    /\ promise' = [promise EXCEPT ![i] =
            Settle(@, [kind |-> "timeout", value |-> Str(TimedOutMsg),
                       from |-> 0, via |-> "timer", calls |-> 0])]
    /\ timers' = [timers EXCEPT ![i] = Disarmed]
    /\ elapsedAtFire' = [elapsedAtFire EXCEPT ![i] = TimeoutMs - timers[i].left]
    /\ UNCHANGED << scoreVars, replaceable, resultsBtnDisabled, hostVars, nCalls, listeners, blobUrls, ignored, navigating,
                    doc, inflight >>

\* TickMs of time pass; time is observed only through the armed timeouts.
Tick ==
    /\ \E i \in Calls : timers[i].armed /\ timers[i].left > 0
    /\ timers' = [i \in Calls |->
                    IF timers[i].armed THEN Armed(timers[i].left - TickMs)
                    ELSE timers[i]]
    /\ UNCHANGED << scoreVars, replaceable, resultsBtnDisabled, hostVars, nCalls, promise, listeners, blobUrls, elapsedAtFire,
                    ignored, navigating, doc, inflight >>

\* JSON.stringify of a property value (line 167): a property whose value is
\* undefined is left out of the body, any other value is written as it is.
Absent == [t |-> "absent", v |-> ""]
JSONStringify(x) == IF x.t = "undefined" THEN Absent ELSE x

\* handleSubmit resumes after `await executeInSandbox` (lines 257-261): a
\* resolved value is sent to /collect, a rejection goes to catch and finally.
SandboxSettled ==
    /\ pc = "exec"
    /\ Settled(promise[nCalls])
    /\ IF promise[nCalls].kind = "ok"
       THEN /\ status' = showStatus("Submitting fingerprint...", FALSE)
            /\ posted' = Append(posted, [session_id |-> inputs.sessionId,
                                         device_label |-> inputs.deviceLabel,
                                         fingerprint_hash |->
                                             JSONStringify(promise[nCalls].value)])
            /\ pc' = "collect"
            /\ UNCHANGED << isRunning, btnDisabled >>
       ELSE /\ status' = ErrorStatus(promise[nCalls].value.v)
            /\ Finally
            /\ UNCHANGED posted
    /\ ignored' = ignored \ {nCalls}
    /\ doc' = Spent(doc)
    /\ UNCHANGED << scoreVars, replaceable, resultsBtnDisabled, inputs, statusDisplay, nCalls, promise,
                    timers, listeners, blobUrls, elapsedAtFire, navigating, inflight >>

\* submitFingerprint settles (lines 161-180, 261-271). When it returns, line
\* 263 calls fingerprintHash.substring, which throws a TypeError when the hash
\* is no string.
CollectDone ==
    /\ pc = "collect"
    /\ \E r \in Responses :
         LET sent == submitFingerprint(r)
             fingerprintHash == promise[nCalls].value
         IN status' =
              IF sent.throws THEN ErrorStatus(sent.message)
              ELSE IF IsString(fingerprintHash)
              THEN showStatus(CheckMark \o " Fingerprint collected: "
                                \o Substring32(fingerprintHash.v) \o "...", FALSE)
              ELSE ErrorStatus(SubstringTypeErrorMsg(fingerprintHash))
    /\ Finally
    /\ UNCHANGED << scoreVars, replaceable, resultsBtnDisabled, inputs, statusDisplay, posted, callVars,
                    navigating, doc, inflight >>

\* handleResults up to its await (lines 277-291): a click on View Results,
\* which a disabled button does not dispatch. It reads the session id the
\* user has typed, and is not held back by isRunning. The results area that
\* displayResults fills is not part of the state.
handleResults ==
    /\ ~resultsBtnDisabled
    /\ \E sessionRaw \in RawInputs :
         IF Trim(sessionRaw) = << >>
         THEN /\ status' = showStatus("Please enter a Session ID first", TRUE)
              /\ UNCHANGED << statusDisplay, resultsBtnDisabled >>
         ELSE /\ resultsBtnDisabled' = TRUE
              /\ statusDisplay' = "none"
              /\ status' = showStatus("Fetching results...", FALSE)
    /\ UNCHANGED << scoreVars, replaceable, isRunning, pc, inputs, btnDisabled,
                    posted, callVars, navigating, doc, inflight >>

\* fetchResults settles (lines 185-195, 291-299): the results are displayed,
\* or the catch block shows the error; the finally block enables the button.
ResultsDone ==
    /\ resultsBtnDisabled
    /\ \E r \in Responses :
         LET fetched == fetchResults(r)
             displayed == displayResults(r)
         IN status' =
              IF fetched.throws THEN ErrorStatus(fetched.message)
              ELSE IF displayed.throws THEN ErrorStatus(displayed.message)
              ELSE showStatus(CheckMark \o " Results loaded successfully", FALSE)
    /\ resultsBtnDisabled' = FALSE
    /\ UNCHANGED << scoreVars, replaceable, isRunning, pc, inputs, statusDisplay,
                    btnDisabled, posted, callVars, navigating, doc, inflight >>

\* ---------------------------------------------------------- sandbox iframe
\* A step of document d appends to the host's queue the messages the script
\* posted while it ran (early) and then those the generated code posts (out).
Post(d, early, out) ==
    /\ (early \o out # << >>) => Len(inflight) < MaxInflight
    /\ inflight' = inflight
          \o [k \in 1..Len(early) |-> Message("sandbox", d, early[k], FALSE)]
          \o [k \in 1..Len(out) |-> Message("sandbox", d, out[k], TRUE)]

\* What the top-level statements of the script post to the host through
\* window.top while the try block runs them (line 119), before the generated
\* code after them can post: nothing, or one message. As for every message of
\* the script, only posts made while some handleMessage is registered are
\* explored.
EarlyPosts ==
    { << >> } \cup
    { << data >> : data \in IF listeners # {} THEN DataShapes ELSE {} }

\* The navigation started by `sandbox.src = ...` (line 154) commits: the blob
\* document replaces the one the iframe held and its scripts run.
\* Head script (lines 102-113): `window.parent = null` either replaces the
\* property (parent is [Replaceable] in the HTML Standard) or is ignored,
\* depending on the engine the page runs in: both engines are explored.
\* Module script (lines 116-148): the script body, which may post to the host
\* itself; then either the body awaits and the module script is suspended,
\* or the typeof check, the call of runFingerprinting and the catch block run
\* as well, and their messages are queued behind those of the script body.
LoadSandbox ==
    /\ navigating.id # 0
    /\ navigating' = NoNav
    /\ LET severed == replaceable
           s == navigating.script
           d == [id |-> navigating.id, script |-> s, severed |-> severed,
                 pc |-> "body", invoked |-> FALSE, wrapperPosts |-> 0]
       IN \E early \in EarlyPosts :
          \/ /\ Post(d.id, early, << >>)
             /\ doc' = d
          \/ \E r \in RunModule(s, severed) :
             /\ Post(d.id, early, r.out)
             /\ doc' = [d EXCEPT !.pc = IF r.done THEN "done" ELSE "await",
                                 !.invoked = Invokes(s),
                                 !.wrapperPosts = Len(r.out)]
    /\ UNCHANGED << scoreVars, replaceable, resultsBtnDisabled, hostVars, callVars >>

\* The promise the script body awaits settles, and the module script goes on
\* from where it was suspended to the end of its synchronous part.
ModuleResumes ==
    /\ doc.pc = "body"
    /\ \E r \in RunModule(doc.script, doc.severed) :
         /\ Post(doc.id, << >>, r.out)
         /\ LET d == [doc EXCEPT !.pc = IF r.done THEN "done" ELSE "await",
                                 !.invoked = Invokes(doc.script),
                                 !.wrapperPosts = Len(r.out)]
            IN doc' = IF pc = "exec" /\ doc.id = nCalls THEN d ELSE Spent(d)
    /\ UNCHANGED << scoreVars, replaceable, resultsBtnDisabled, hostVars, callVars,
                    navigating >>

\* The promise runFingerprinting returned settles, and the callbacks of
\* lines 126-141 run.
PromiseSettles ==
    /\ doc.pc = "await"
    /\ doc.script.kind \in {"resolves", "rejects", "evaluates"}
    /\ LET outs ==
             CASE doc.script.kind = "resolves" ->
                    { ThenPosts(doc.script.x, doc.severed) }
               [] doc.script.kind = "rejects" ->
                    { CatchPosts(x, doc.severed) : x \in Thrown }
               [] OTHER ->
                    { ThenPosts(Evaluate(p).value, doc.severed) :
                        p \in { q \in Primitives : ~Evaluate(q).throws } }
       IN \E out \in outs :
          /\ Post(doc.id, << >>, out)
          /\ LET d == [doc EXCEPT !.pc = "done", !.wrapperPosts = @ + Len(out)]
             IN doc' = IF pc = "exec" /\ doc.id = nCalls THEN d ELSE Spent(d)
    /\ UNCHANGED << scoreVars, replaceable, resultsBtnDisabled, hostVars, callVars, navigating >>

\* `window.top = null` (line 111): top is [LegacyUnforgeable], the assignment
\* has no effect in any engine and, the head script being sloppy-mode code,
\* does not throw either.
TopSevered == FALSE

\* The untrusted script posts a message of its own to the host through
\* window.top, which the head script cannot replace. A message posted while
\* no handleMessage is registered is heard by nobody: only posts made while
\* some listener is registered are explored.
ScriptPosts ==
    /\ doc.id # 0
    /\ ~(doc.severed /\ TopSevered)
    /\ listeners # {}
    /\ Len(inflight) < MaxInflight
    /\ \E data \in DataShapes :
         inflight' = Append(inflight, Message("sandbox", doc.id, data, FALSE))
    /\ UNCHANGED << scoreVars, replaceable, resultsBtnDisabled, hostVars, callVars, navigating, doc >>

\* A window other than the sandbox posts a message to the host (while some
\* handleMessage is registered to hear it).
ForgedPost ==
    /\ listeners # {}
    /\ Len(inflight) < MaxInflight
    /\ \E data \in ForgedShapes :
         inflight' = Append(inflight, Message("other", 0, data, FALSE))
    /\ UNCHANGED << scoreVars, replaceable, resultsBtnDisabled, hostVars, callVars, navigating, doc >>

\* ------------------------------------------------------------- scoring
\* The record store and the scoring engine run in the backend. Points are
\* counted in hundredths: 100 is 1.0, 70 is 0.7, 25 is 0.25.
DeviceLabels == { "d1", "d2", "d3" }
Hashes == { "hA", "hB", "hC" }
Record(d, h) == [device_label |-> d, fingerprint_hash |-> h]

\* Step 1: the devices of a record sequence, and the set of distinct hashes a
\* device submitted.
Devices(recs) == { recs[k].device_label : k \in 1..Len(recs) }
HashSet(recs, d) ==
    { recs[k].fingerprint_hash : k \in { j \in 1..Len(recs) : recs[j].device_label = d } }
SubmissionCount(recs, d) ==
    Cardinality({ j \in 1..Len(recs) : recs[j].device_label = d })
HashCount(recs, d) == Cardinality(HashSet(recs, d))

\* Step 2: the fragmentation score by the number of distinct hashes.
FragmentationNoFail(n) == IF n = 1 THEN 100 ELSE 70
FragmentationScore(n) ==
    CASE n = 1 -> 100
      [] n = 2 -> 70
      [] OTHER -> 0

\* Step 3: the devices that ever submitted a hash, and the largest number of
\* other devices one of the device's hashes is shared with.
LabelSet(recs, h) ==
    { recs[k].device_label : k \in { j \in 1..Len(recs) : recs[j].fingerprint_hash = h } }
SetMax(S) == CHOOSE x \in S : \A y \in S : y <= x
OverlapCountingSelf(recs, d) ==
    SetMax({ Cardinality(LabelSet(recs, h)) : h \in HashSet(recs, d) })
OverlapDevices(recs, d) ==
    SetMax({ Cardinality(LabelSet(recs, h)) - 1 : h \in HashSet(recs, d) })

\* Step 4: the collision rule, with its floor at 0.0.
NoFloor(x) == x
Floor0(x) == IF x < 0 THEN 0 ELSE x
CollisionRule(fragmentation, overlap) ==
    IF overlap >= 2 THEN 0
    ELSE IF overlap = 1 THEN Floor0(fragmentation - 25)
    ELSE fragmentation

\* Step 5: the final points of a device, clamped to [0, 1].
Clamp(x) == IF x < 0 THEN 0 ELSE IF x > 100 THEN 100 ELSE x
DevicePoints(recs, d) ==
    Clamp(CollisionRule(FragmentationScore(HashCount(recs, d)),
                        OverlapDevices(recs, d)))

\* Step 6: the session score, sum(device points) / count(distinct devices),
\* kept as the fraction num / (100 * den); 0.0 when there is no device.
RECURSIVE SumPoints(_, _)
SumPoints(recs, S) ==
    IF S = {} THEN 0
    ELSE LET d == CHOOSE x \in S : TRUE
         IN DevicePoints(recs, d) + SumPoints(recs, S \ {d})
SessionScorePerRecord(recs) ==
    IF Devices(recs) = {} THEN [num |-> 0, den |-> 1]
    ELSE [num |-> SumPoints(recs, Devices(recs))
                    + (Len(recs) - Cardinality(Devices(recs))) * 100,
          den |-> Cardinality(Devices(recs))]
SessionScore(recs) ==
    IF Devices(recs) = {} THEN [num |-> 0, den |-> 1]
    ELSE [num |-> SumPoints(recs, Devices(recs)),
          den |-> Cardinality(Devices(recs))]

\* Step 7: the breakdown.
Breakdown(recs) ==
    [correct |-> Cardinality({ d \in Devices(recs) : DevicePoints(recs, d) = 100 }),
     collisions |-> Cardinality({ d \in Devices(recs) : OverlapDevices(recs, d) >= 1 }),
     fragmentations |-> Cardinality({ d \in Devices(recs) : HashCount(recs, d) > 1 })]

\* Query results: the records, the score and the breakdown, recomputed in
\* full from the record sequence.
Results(recs) ==
    [queried |-> TRUE, devices |-> recs, score |-> SessionScore(recs),
     breakdown |-> Breakdown(recs)]

\* Submit record: the store appends it.
SubmitRecord ==
    /\ Len(records) < MaxRecords
    /\ \E d \in DeviceLabels, h \in Hashes : records' = Append(records, Record(d, h))
    /\ response' = NoResponse
    /\ UNCHANGED << replaceable, resultsBtnDisabled, hostVars, callVars,
                    navigating, doc, inflight >>

\* Query results.
QueryResults ==
    /\ response' = Results(records)
    /\ UNCHANGED << records, replaceable, resultsBtnDisabled, hostVars, callVars,
                    navigating, doc, inflight >>

\* Reset session: the store drops every record of the session.
ResetSession ==
    /\ records' = << >>
    /\ response' = NoResponse
    /\ UNCHANGED << replaceable, resultsBtnDisabled, hostVars, callVars,
                    navigating, doc, inflight >>

\* ---------------------------------------------------------- specification
Next ==
    \/ handleSubmit
    \/ FetchDone
    \/ SandboxSettled
    \/ CollectDone
    \/ handleResults
    \/ ResultsDone
    \/ Deliver
    \/ \E i \in Calls : TimerFires(i)
    \/ Tick
    \/ LoadSandbox
    \/ ModuleResumes
    \/ PromiseSettles
    \/ ScriptPosts
    \/ ForgedPost

Spec == Init /\ [][Next]_vars

\* The host's event loop runs every queued task: a due timeout callback and a
\* queued message event are eventually run, time passes, a navigation that
\* was started commits, and the callbacks of a promise that settles run. The
\* requests to the server are answered, and handleSubmit resumes when the
\* promise it awaits has settled.
FairSpec ==
    /\ Spec
    /\ WF_vars(Deliver)
    /\ WF_vars(\E i \in Calls : TimerFires(i))
    /\ WF_vars(Tick)
    /\ WF_vars(LoadSandbox)
    /\ WF_vars(PromiseSettles)
    /\ WF_vars(FetchDone)
    /\ WF_vars(SandboxSettled)
    /\ WF_vars(CollectDone)
    /\ WF_vars(ResultsDone)

\* The scoring of one session, the page left idle.
ScoreInit == Init /\ ~replaceable
ScoreNext ==
    \/ SubmitRecord
    \/ QueryResults
    \/ ResetSession
ScoreSpec == ScoreInit /\ [][ScoreNext]_vars

\* ------------------------------------------------------------------ claims
\* The invocation handleSubmit is awaiting, and whether the document created
\* for invocation i is the one the iframe holds.
Started(i) == promise[i].kind \in {"pending", "ok", "error", "timeout"}
OwnDoc(i) == doc.id = i
\* Invocation i was settled by the message the generated document of its own
\* run posted (not by a message the script posted itself, nor by the timer).
ByOwnWrapper(i) ==
    promise[i].kind \in {"ok", "error"} /\ promise[i].from = i
        /\ promise[i].via = "wrapper"

\* C1: every call to executeInSandbox eventually resolves or rejects, whatever
\* the untrusted script posts or fails to post.
C1_EveryCallSettles ==
    \A i \in Calls : (promise[i].kind = "pending") ~> Settled(promise[i])

\* C2: no call delivers more than one outcome: once the promise of a call is
\* resolved or rejected, no later timer or message changes the outcome.
C2_OutcomeNeverReplaced ==
    [][\A i \in Calls :
         Settled(promise[i]) /\ promise'[i].kind # "collected" =>
            /\ promise'[i].kind = promise[i].kind
            /\ promise'[i].value = promise[i].value]_vars
\* A call that timed out and on which resolve or reject was called again.
C2_Witness ==
    \E i \in Calls : promise[i].kind = "timeout" /\ promise[i].calls = 2

\* C3: a message whose source is not the sandbox window is ignored: its
\* dispatch leaves the timer, the listeners and every promise as they were,
\* no call is ever settled by such a message, and a call that ignored one is
\* still resolved with the hash of the next message, when its own context
\* posts it.
C3_ForgedIgnored ==
    /\ [][(inflight # << >> /\ inflight' = Tail(inflight)
              /\ Head(inflight).source # "sandbox")
            => UNCHANGED << promise, timers, listeners >>]_vars
    /\ [](\A i \in Calls :
            promise[i].kind \in {"ok", "error"} =>
                promise[i].value # Str("forged") /\ promise[i].from # 0)
    /\ [][\A i \in ignored :
            (/\ promise[i].kind = "pending" /\ i \in listeners
             /\ inflight # << >> /\ inflight' = Tail(inflight)
             /\ Head(inflight).source = "sandbox" /\ Head(inflight).doc = i
             /\ IsResult(Head(inflight).data)
             /\ ~Truthy(Head(inflight).data.error))
            => /\ promise'[i].kind = "ok"
               /\ promise'[i].value = Head(inflight).data.hash]_vars
\* A call that ignored a forged message and was then resolved by the hash its
\* own context posted.
C3_Witness ==
    \E i \in Calls :
        /\ i \in ignored
        /\ promise[i].kind = "ok" /\ promise[i].from = i
        /\ promise[i].value = Str("h1")

\* C4: a call is settled only by a message from the context created for it,
\* never by a message an earlier invocation's context posted.
C4_SettledByOwnContext ==
    \A i \in Calls : promise[i].kind \in {"ok", "error"} => promise[i].from = i

\* C5: whenever executeInSandbox resolves, the value is a string.
C5_ResolvesWithString ==
    \A i \in Calls : promise[i].kind = "ok" => IsString(promise[i].value)

\* C6: when the script throws or its promise rejects, the outcome its run
\* delivers is an error, never ok.
C6_ThrowGivesError ==
    \A i \in Calls :
        (OwnDoc(i) /\ doc.script.kind \in {"bodyThrows", "runThrows", "rejects"}
            /\ ByOwnWrapper(i))
        => promise[i].kind = "error"

\* C7: the timeout is delivered only once the 5000 ms have elapsed, only to a
\* call no sandbox message settled, and a call that no sandbox message has
\* reached keeps its timer armed until it fires and rejects the call.
C7_TimeoutAtDeadline ==
    \A i \in Calls :
        /\ promise[i].kind = "timeout" =>
              elapsedAtFire[i] >= TimeoutMs /\ promise[i].via = "timer"
        /\ elapsedAtFire[i] # -1 => promise[i].kind = "timeout"
        /\ promise[i].kind \in {"ok", "error"} => elapsedAtFire[i] = -1
        /\ (promise[i].kind = "pending" /\ i \in listeners) => timers[i].armed
\* A call rejected by its timer.
C7_Witness ==
    \E i \in Calls : promise[i].kind = "timeout" /\ elapsedAtFire[i] >= TimeoutMs

\* C8: a script whose entry point returns a string synchronously yields ok
\* with that string.
C8_SyncStringIsOk ==
    \A i \in Calls :
        (OwnDoc(i) /\ doc.script.kind = "returns" /\ IsString(doc.script.x)
            /\ ByOwnWrapper(i))
        => promise[i].kind = "ok" /\ promise[i].value = doc.script.x

\* C9: a script without a callable runFingerprinting never has it invoked,
\* has exactly one error message posted by the generated document, and the
\* call is rejected with that error rather than resolved or timed out.
C9_EntryPointMissing ==
    \A i \in Calls :
        (OwnDoc(i) /\ doc.script.kind \in {"missing", "notFunction"}
            /\ doc.pc = "done") =>
            /\ ~doc.invoked
            /\ doc.wrapperPosts = 1
            /\ (Settled(promise[i]) /\ promise[i].via # "script" /\ promise[i].from \in {0, i})
                 => promise[i].kind = "error" /\ promise[i].value = Str(NotFoundMsg)

\* C10: once a call has resolved, rejected or timed out, its timer is
\* cancelled, its listener removed and its blob URL released.
C10_ReleasedOnExit ==
    \A i \in Calls :
        Settled(promise[i]) =>
            ~timers[i].armed /\ i \notin listeners /\ i \notin blobUrls

\* C11: at most one sandbox execution is in flight, the one the running
\* handleSubmit awaits; and while a handleSubmit is running nothing starts a
\* script fetch, a second sandbox run or a POST of its own, and isRunning and
\* the button change only when the running handleSubmit ends: a handleSubmit
\* invoked meanwhile has no effect.
C11_OneInFlight ==
    /\ [](\A i \in Calls :
            promise[i].kind = "pending" => isRunning /\ pc = "exec" /\ i = nCalls)
    /\ [][isRunning =>
            /\ pc' = "fetch" => pc = "fetch"
            /\ nCalls' # nCalls => pc = "fetch" /\ pc' = "exec" /\ nCalls' = nCalls + 1
            /\ posted' # posted =>
                  pc = "exec" /\ pc' = "collect" /\ Len(posted') = Len(posted) + 1
            /\ (isRunning' # isRunning \/ btnDisabled' # btnDisabled) =>
                  pc' = "idle" /\ ~isRunning' /\ ~btnDisabled']_vars
\* The sandbox run of the second handleSubmit is in flight, a click or Enter
\* can invoke handleSubmit again, and the first run's promise is not pending.
C11_Witness ==
    /\ isRunning /\ pc = "exec" /\ nCalls = 2
    /\ promise[2].kind = "pending" /\ promise[1].kind # "pending"
    /\ ENABLED handleSubmit

\* The statuses handleSubmit shows for a failure (line 266).
FetchFailedStatuses == { ErrorStatus(FailedToLoadMsg), ErrorStatus(FailedToFetchMsg) }
SandboxFailedStatus == ErrorStatus(promise[nCalls].value.v)

\* C12: a record is posted to /collect only when the sandbox run of this
\* handleSubmit resolved, and carries its hash; when the fetch fails or the
\* run is rejected or times out nothing is posted and the error is shown to
\* the user; a handleSubmit makes at most one fetch, one run and one POST.
C12_PostOnlyAfterOk ==
    /\ [](Len(posted) <= 1)
    /\ [][(posted' # posted /\ posted' # << >>) =>
            /\ pc = "exec" /\ promise[nCalls].kind = "ok"
            /\ posted'[1].fingerprint_hash = promise[nCalls].value]_vars
    /\ [][(pc = "fetch" /\ pc' = "idle") =>
            /\ posted' = << >> /\ nCalls' = nCalls
            /\ status' \in FetchFailedStatuses /\ statusDisplay' # "none"]_vars
    /\ [][(pc = "exec" /\ pc' = "idle") =>
            /\ promise[nCalls].kind \in {"error", "timeout"}
            /\ posted' = << >>
            /\ status' = SandboxFailedStatus /\ statusDisplay' # "none"]_vars
    /\ [][/\ pc' = "fetch" => pc \in {"idle", "fetch"}
          /\ nCalls' # nCalls => (pc = "fetch" /\ pc' = "exec")]_vars

\* The statuses validateInputs shows (lines 45 and 49).
ValidationStatuses ==
    { showStatus("Please enter a Session ID", TRUE),
      showStatus("Please enter a Device Label", TRUE) }

\* C13: a submit with an empty session id or device label (after trimming)
\* fails validation and does nothing else: the step that shows a validation
\* message changes nothing but the status, a handleSubmit that goes on to
\* fetch has two non-empty trimmed inputs, and after a validation failure
\* isRunning is false and a valid submit is accepted.
C13_ValidationFirst ==
    /\ [][status' \in ValidationStatuses /\ status' # status =>
            /\ ~isRunning /\ ~isRunning' /\ pc = "idle"
            /\ UNCHANGED << pc, inputs, statusDisplay, btnDisabled, posted,
                            callVars, navigating, doc, inflight >>]_vars
    /\ [][(pc = "idle" /\ pc' = "fetch") =>
            /\ inputs'.sessionId # << >> /\ inputs'.deviceLabel # << >>
            /\ inputs'.sessionId = Trim(inputs'.sessionId)
            /\ inputs'.deviceLabel = Trim(inputs'.deviceLabel)]_vars
    /\ [](status \in ValidationStatuses =>
            /\ ~isRunning /\ ~btnDisabled /\ pc = "idle"
            /\ nCalls < MaxCalls => ENABLED (handleSubmit /\ pc' = "fetch"))
\* A validation failure after a completed run, with a further run possible.
C13_Witness ==
    /\ status = showStatus("Please enter a Device Label", TRUE)
    /\ nCalls = 1 /\ ~isRunning /\ pc = "idle"

\* C14: whenever the injected script has run in the sandbox document, the
\* document holds no usable reference to the host window, neither
\* window.parent nor window.top, and the result of a script that resolves to
\* a string is still delivered to the host by the generated document.
C14_BackReferenceSevered ==
    doc.id # 0 =>
        /\ doc.severed /\ TopSevered
        /\ (doc.pc = "done" /\ doc.script.kind = "resolves"
                /\ IsString(doc.script.x)) => doc.wrapperPosts = 1

\* C15: every primitive that evaluates a string as code is intercepted: a
\* script that uses one gets no further than that use, which throws, and its
\* run ends with an error outcome, never ok.
C15_DynamicEvalFails ==
    /\ (doc.id # 0 /\ doc.script.kind = "evaluates" /\ doc.pc # "body")
          => doc.pc = "done"
    /\ \A i \in Calls :
          (OwnDoc(i) /\ doc.script.kind = "evaluates" /\ ByOwnWrapper(i))
          => promise[i].kind = "error"

\* C20: whenever no handleSubmit is in progress isRunning is false and the
\* button is enabled, and every handleSubmit that set isRunning sets it back
\* to false in the end, however the fetch, the sandbox run and the POST go.
C20_GuardReleased ==
    /\ [](pc = "idle" => ~isRunning /\ ~btnDisabled)
    /\ isRunning ~> ~isRunning

\* The records at positions k and k+1 exchanged, and the devices other than d
\* that submitted hash h.
Swap(recs, k) ==
    [j \in 1..Len(recs) |->
        IF j = k THEN recs[k + 1] ELSE IF j = k + 1 THEN recs[k] ELSE recs[j]]
OtherDevices(recs, d, h) ==
    { recs[k].device_label : k \in { j \in 1..Len(recs) :
                                       /\ recs[j].fingerprint_hash = h
                                       /\ recs[j].device_label # d } }
SharedWith(recs, d, n) ==
    \E k \in 1..Len(recs) :
        /\ recs[k].device_label = d
        /\ Cardinality(OtherDevices(recs, d, recs[k].fingerprint_hash)) >= n

\* C16: the score of every session lies in [0, 1], and so do the final points
\* of each of its devices; the score of a session without devices is 0.0.
C16_ScoreInUnitInterval ==
    response.queried =>
        /\ response.score.den >= 1
        /\ 0 <= response.score.num
        /\ response.score.num <= 100 * response.score.den
        /\ \A d \in Devices(records) :
              0 <= DevicePoints(records, d) /\ DevicePoints(records, d) <= 100
        /\ records = << >> => response.score.num = 0
\* A session with a resubmitted record whose score is strictly between 0 and 1.
C16_Witness ==
    /\ response.queried
    /\ 0 < response.score.num /\ response.score.num < 100 * response.score.den
    /\ Len(records) > Cardinality(Devices(records))

\* C17: exchanging two neighbouring records (hence any permutation) and
\* submitting again a record already present change neither the score nor
\* the breakdown.
C17_OrderIndependent ==
    response.queried =>
        /\ \A k \in 1..(Len(records) - 1) :
              SessionScore(Swap(records, k)) = response.score
                  /\ Breakdown(Swap(records, k)) = response.breakdown
        /\ \A k \in 1..Len(records) :
              SessionScore(Append(records, records[k])) = response.score
                  /\ Breakdown(Append(records, records[k])) = response.breakdown
\* Two devices, one of which submitted the same record twice, not in a row.
C17_Witness ==
    /\ response.queried
    /\ Len(records) >= 3
    /\ records[1] = records[3] /\ records[2].device_label # records[1].device_label

\* C18: a device one of whose hashes two or more other devices submitted has
\* 0.0 points; a device whose hashes are shared with one other device at most,
\* and one of them with one, has its fragmentation score minus 0.25, not
\* below 0.0; two devices sharing their single hash score 0.75 each (session
\* 0.75, collisions 2), three devices sharing one hash 0.0 each (session 0.0).
C18_CollisionRule ==
    response.queried =>
        /\ \A d \in Devices(records) :
              LET n == Cardinality({ records[k].fingerprint_hash :
                          k \in { j \in 1..Len(records) :
                                    records[j].device_label = d } })
                  f == IF n = 1 THEN 100 ELSE IF n = 2 THEN 70 ELSE 0
              IN /\ SharedWith(records, d, 2) => DevicePoints(records, d) = 0
                 /\ (SharedWith(records, d, 1) /\ ~SharedWith(records, d, 2)) =>
                       DevicePoints(records, d) = IF f >= 25 THEN f - 25 ELSE 0
        /\ (/\ Len(records) = 2
            /\ records[1].device_label # records[2].device_label
            /\ records[1].fingerprint_hash = records[2].fingerprint_hash) =>
              /\ \A d \in Devices(records) : DevicePoints(records, d) = 75
              /\ response.score = [num |-> 150, den |-> 2]
              /\ response.breakdown.collisions = 2
        /\ (/\ Len(records) = 3
            /\ Cardinality(Devices(records)) = 3
            /\ \A k \in 1..3 : records[k].fingerprint_hash = records[1].fingerprint_hash) =>
              /\ \A d \in Devices(records) : DevicePoints(records, d) = 0
              /\ response.score = [num |-> 0, den |-> 3]
\* Three devices sharing one hash, scored.
C18_Witness ==
    /\ response.queried
    /\ Len(records) = 3 /\ Cardinality(Devices(records)) = 3
    /\ \A k \in 1..3 : records[k].fingerprint_hash = "hA"

\* C19: a device that shares no hash with another device scores 1.0 with one
\* distinct hash, 0.7 with two and 0.0 with three or more; correct counts the
\* devices with final points 1.0 and fragmentations those with more than one
\* distinct hash; one device submitting one hash three times gives score 1.0,
\* correct 1, collisions 0, fragmentations 0.
C19_FragmentationRule ==
    response.queried =>
        /\ \A d \in Devices(records) :
              LET n == Cardinality({ records[k].fingerprint_hash :
                          k \in { j \in 1..Len(records) :
                                    records[j].device_label = d } })
              IN /\ ~SharedWith(records, d, 1) =>
                       DevicePoints(records, d) =
                           IF n = 1 THEN 100 ELSE IF n = 2 THEN 70 ELSE 0
                 /\ n >= 1
        /\ response.breakdown.correct =
              Cardinality({ d \in Devices(records) : DevicePoints(records, d) = 100 })
        /\ response.breakdown.fragmentations =
              Cardinality({ d \in Devices(records) :
                  \E j, k \in 1..Len(records) :
                      /\ records[j].device_label = d /\ records[k].device_label = d
                      /\ records[j].fingerprint_hash # records[k].fingerprint_hash })
        /\ (Len(records) = 3 /\ records[1] = records[2] /\ records[2] = records[3]) =>
              /\ response.score = [num |-> 100, den |-> 1]
              /\ response.breakdown =
                    [correct |-> 1, collisions |-> 0, fragmentations |-> 0]
\* One device that submitted three distinct hashes, scored.
C19_Witness ==
    /\ response.queried
    /\ Cardinality(Devices(records)) = 1
    /\ Cardinality({ records[k].fingerprint_hash : k \in 1..Len(records) }) = 3

====
